---- MODULE Spec2Model ----
(***************************************************************************)
(* txt2epub, convert.py: txt_to_epub reads a text file, resolves the       *)
(* language, splits the text into chapters with a language specific        *)
(* regular expression and writes the chapters as an EPUB book.             *)
(*                                                                         *)
(* A text is a sequence of characters, each character a string of length   *)
(* one.  The Chinese characters of the source are written by their pinyin  *)
(* names: "di" U+7B2C, "juan" U+5377, "zhang" U+7AE0, "hui" U+56DE,        *)
(* "bu" U+90E8, "jie" U+8282, "ji" U+96C6, "yi" U+4E00 ... "liang" U+4E24, *)
(* and the spine uid "mulu" U+76EE U+5F55.                                 *)
(***************************************************************************)
EXTENDS Integers, Sequences, FiniteSets, TLC

VARIABLES
    args,           \* the arguments of the call: txt_file_path, epub_file_path, author, title, id, lang
    fs,             \* the file system: the text file's content, the destination's state
    pc,             \* the position in txt_to_epub
    book_content,   \* file.read()
    epub_file_path, \* the local epub_file_path (after defaulting)
    title,          \* the local title (after defaulting)
    lang,           \* the local lang (after resolution)
    regex,          \* the language key of the pattern chosen at lines 131-138
    spine_uid,
    splits,         \* re.split's list
    i,              \* the loop variable of line 148
    book,           \* the EpubBook: title, language, identifier, authors, items, toc, spine
    result,         \* how the call ended: "running", "None" (returned), "raised"
    stdout,         \* what txt_to_epub printed
    calls           \* how often open/read, detect (and how often it raised), re.split and
                    \* write_epub were called

vars == <<args, fs, pc, book_content, epub_file_path, title, lang, regex, spine_uid,
          splits, i, book, result, stdout, calls>>

---------------------------------------------------------------------------
(* Characters and the character classes of the two patterns.               *)

NL == "\n"

\* \s of Python's re for the characters of the model
Whitespace == {" ", NL, "\t"}

\* the class [Chapter] of line 137: a SET of seven letters, not the word
ChapterClass == {"C", "h", "a", "p", "t", "e", "r"}

\* [U+7B2C U+5377] of line 133
Markers == {"di", "juan"}

\* [0123456789...] of line 133
Numerals == {"0", "1", "2", "3", "4", "5", "6", "7", "8", "9",
             "yi", "er", "san", "si", "wu", "liu", "qi", "ba", "jiu", "shi",
             "ling", "ling0", "bai", "qian", "liang"}

\* the unit class of line 133
Units == {"zhang", "hui", "bu", "jie", "ji", "juan"}

---------------------------------------------------------------------------
(* The regular expression engine for the patterns of lines 133 and 137:   *)
(* line start, whitespace run, captured heading line, whitespace run.      *)

IsWS(c) == c \in Whitespace

\* ^ under re.MULTILINE: the start of the text, or right after a newline
AtLineStart(t, p) == p = 1 \/ (p - 1 <= Len(t) /\ t[p - 1] = NL)

\* the whitespace run is greedy: the first position from p on that holds no whitespace
RECURSIVE SkipWS(_, _)
SkipWS(t, p) == IF p <= Len(t) /\ IsWS(t[p]) THEN SkipWS(t, p + 1) ELSE p

\* the numeral run is greedy
RECURSIVE SkipNumerals(_, _)
SkipNumerals(t, p) == IF p <= Len(t) /\ t[p] \in Numerals THEN SkipNumerals(t, p + 1) ELSE p

\* the rest of the line: greedy, the dot matches everything but the newline
RECURSIVE SkipLine(_, _)
SkipLine(t, p) == IF p <= Len(t) /\ t[p] # NL THEN SkipLine(t, p + 1) ELSE p

\* [Chapter] at q: the position after it, or 0
HeadEn(t, q) == IF q <= Len(t) /\ t[q] \in ChapterClass THEN q + 1 ELSE 0

\* marker, numeral run, unit at q: the position after it, or 0.  The numerals
\* and the units are disjoint, so backtracking into the numerals finds nothing.
HeadZh(t, q) ==
    IF q <= Len(t) /\ t[q] \in Markers
    THEN LET r == SkipNumerals(t, q + 1)
         IN  IF r <= Len(t) /\ t[r] \in Units THEN r + 1 ELSE 0
    ELSE 0

HeadingStart(l, t, q) == IF l = "zh-cn" THEN HeadZh(t, q) ELSE HeadEn(t, q)

NoMatch == [start |-> 0, gstart |-> 0, gend |-> 0, end |-> 0]

\* MatchAt with the capture group opened one character late
MatchAtGroupMisplaced(l, t, p) ==
    IF ~AtLineStart(t, p) THEN NoMatch
    ELSE LET q == SkipWS(t, p)
             h == HeadingStart(l, t, q)
         IN  IF h = 0 THEN NoMatch
             ELSE LET e == SkipLine(t, h)
                  IN  [start |-> p, gstart |-> q + 1, gend |-> e, end |-> SkipWS(t, e)]

\* the match of the pattern of language l that starts at p: m.start(), m.start(1),
\* m.end(1), m.end(), ends exclusive; NoMatch when there is none
MatchAt(l, t, p) ==
    IF ~AtLineStart(t, p) THEN NoMatch
    ELSE LET q == SkipWS(t, p)
             h == HeadingStart(l, t, q)
         IN  IF h = 0 THEN NoMatch
             ELSE LET e == SkipLine(t, h)
                  IN  [start |-> p, gstart |-> q, gend |-> e, end |-> SkipWS(t, e)]

\* pattern.search(t, pos): the leftmost match from pos on
RECURSIVE Search(_, _, _)
Search(l, t, pos) ==
    IF pos > Len(t) THEN NoMatch
    ELSE LET m == MatchAt(l, t, pos)
         IN  IF m # NoMatch THEN m ELSE Search(l, t, pos + 1)

Slice(t, a, b) == IF b <= a THEN <<>> ELSE SubSeq(t, a, b - 1)

\* re.split(regex, t, flags=re.M) with one capture group: the text before each
\* match, then the group; at the end the rest of the text
RECURSIVE SplitFrom(_, _, _)
SplitFrom(l, t, pos) ==
    LET m == Search(l, t, pos)
    IN  IF m = NoMatch THEN << Slice(t, pos, Len(t) + 1) >>
        ELSE << Slice(t, pos, m.start), Slice(t, m.gstart, m.gend) >>
             \o SplitFrom(l, t, m.end)

ReSplit(l, t) == SplitFrom(l, t, 1)

---------------------------------------------------------------------------
(* Paths: os.path.split and os.path.splitext on POSIX, on character        *)
(* sequences.                                                              *)

\* p.rfind(c), 1-based; 0 when c is not in p
RECURSIVE RFindFrom(_, _, _)
RFindFrom(p, c, k) == IF k = 0 THEN 0 ELSE IF p[k] = c THEN k ELSE RFindFrom(p, c, k - 1)

RFind(p, c) == RFindFrom(p, c, Len(p))

\* os.path.split(p)[-1]: what follows the last slash
Basename(p) == Slice(p, RFind(p, "/") + 1, Len(p) + 1)

\* the position of the extension's dot, or 0: the last dot, when it is after
\* the last slash and some character of the file name before it is not a dot
ExtDot(p) ==
    LET sep == RFind(p, "/")
        dot == RFind(p, ".")
    IN  IF dot > sep /\ (\E k \in (sep + 1)..(dot - 1) : p[k] # ".") THEN dot ELSE 0

\* os.path.splitext(p)[0]
SplitextRoot(p) == IF ExtDot(p) = 0 THEN p ELSE Slice(p, 1, ExtDot(p))

EpubExt == <<".", "e", "p", "u", "b">>

---------------------------------------------------------------------------
(* The book.                                                               *)

NoBook == [title |-> <<>>, language |-> "", identifier |-> "", authors |-> <<>>,
           items |-> <<>>, toc |-> <<>>, spine |-> <<>>]

\* epub.EpubBook(): ebooklib starts a book with a generated identifier, the
\* language 'en' and nothing else
NewBook == [NoBook EXCEPT !.language = "en", !.identifier = "uuid4"]

\* LinkHref numbering the links from the next index
LinkHrefNextIndex(k) == "chap_" \o ToString(k + 1) \o ".xhtml"

\* the resource name and the link of chapter i, lines 151 and 154
FileName(k) == "chap_" \o ToString(k) \o ".xhtml"

LinkHref(k) == "chap_" \o ToString(k) \o ".xhtml"

LinkUid(k) == "chap" \o ToString(k)

\* body.replace('\n', '<br/>')
RECURSIVE ReplaceNL(_)
ReplaceNL(b) ==
    IF b = <<>> THEN <<>>
    ELSE << IF b[1] = NL THEN "<br/>" ELSE b[1] >> \o ReplaceNL(Tail(b))

Content(b) == <<"<html><body><p>">> \o ReplaceNL(b) \o <<"</p></body></html>">>

EpubHtml(t, f, l, c) ==
    [kind |-> "EpubHtml", uid |-> "", title |-> t, file_name |-> f, lang |-> l, content |-> c]

EpubNcx == [kind |-> "EpubNcx", uid |-> "", title |-> <<>>, file_name |-> "toc.ncx",
            lang |-> "", content |-> <<>>]

EpubNav(u) == [kind |-> "EpubNav", uid |-> u, title |-> <<>>, file_name |-> "nav.xhtml",
               lang |-> "", content |-> <<>>]

Link(h, t, u) == [href |-> h, title |-> t, uid |-> u]

\* a spine entry is a uid (a string in the source) or a chapter object
SpineUid(u) == [ref |-> "uid", uid |-> u, item |-> <<>>]

SpineItem(c) == [ref |-> "item", uid |-> "", item |-> <<c>>]

\* LanguageSettings with the English branch as the final else
LanguageSettingsElseEn(l) ==
    IF l = "zh-cn" THEN [supported |-> TRUE, regex |-> "zh-cn", spine_uid |-> "mulu"]
    ELSE [supported |-> TRUE, regex |-> "en", spine_uid |-> "Table of Content"]

\* lines 131-141: the pattern and the navigation label of a language
LanguageSettings(l) ==
    IF l = "zh-cn" THEN [supported |-> TRUE, regex |-> "zh-cn", spine_uid |-> "mulu"]
    ELSE IF l = "en" THEN [supported |-> TRUE, regex |-> "en", spine_uid |-> "Table of Content"]
    ELSE [supported |-> FALSE, regex |-> "", spine_uid |-> ""]

\* FallbackLang falling back to English
FallbackLangEn == "en"

\* line 117
FallbackLang == "zh-cn"

\* NoInputPath testing for None only, which an empty path is not
NoInputPathNoneOnly(p) == FALSE

\* line 98: not txt_file_path
NoInputPath(p) == p = <<>>

\* NavigationItems with EpubNav's default uid
NavigationItemsDefaultUid(u) == <<EpubNcx, EpubNav("nav")>>

\* lines 158-159
NavigationItems(u) == <<EpubNcx, EpubNav(u)>>

\* line 148: range(1, len(splits) - 1, 2)
RangeStart == 1

RangeStep == 2

InRange(k, s) == k < Len(s) - 1

---------------------------------------------------------------------------
(* Inputs.                                                                 *)

MaxLen == 3

Alphabet == {NL, " ", "C", "H", "di", "juan", "yi"}

BoundedTexts == UNION {[1..n -> Alphabet] : n \in 0..MaxLen}

\* "Chapter 1\nHello\nChapter 2\nWorld"
TwoChapters == <<"C", "h", "a", "p", "t", "e", "r", " ", "1", NL, "H", "e", "l", "l", "o", NL,
                 "C", "h", "a", "p", "t", "e", "r", " ", "2", NL, "W", "o", "r", "l", "d">>

\* "Chapter 1\nhe said\n  Chapter 2\n"
HeSaid == <<"C", "h", "a", "p", "t", "e", "r", " ", "1", NL, "h", "e", " ", "s", "a", "i", "d", NL,
            " ", " ", "C", "h", "a", "p", "t", "e", "r", " ", "2", NL>>

\* a preface, chapter one with a numeral, a heading without a numeral
ZhBook == <<"H", NL, "di", "yi", "zhang", " ", "H", NL, "H", NL, "di", "zhang", NL, "H">>

Texts == BoundedTexts \cup {TwoChapters, HeSaid, ZhBook}

TxtPath == <<"d", "/", "b", ".", "t", "x", "t">>

OutPath == <<"o", ".", "e", "p", "u", "b">>

\* the optional arguments: none given, or all of them
Overrides == {[epub_file_path |-> <<>>, author |-> "", title |-> <<>>, id |-> ""],
              [epub_file_path |-> OutPath, author |-> "A", title |-> <<"T">>, id |-> "id1"]}

LangArgs == {"", "en", "zh-cn", "fr"}

\* what langdetect.detect may return
Detected == {"en", "zh-cn", "fr"}

NoCalls == [read |-> 0, detect |-> 0, detect_raised |-> 0, split |-> 0, write |-> 0]

Init ==
    /\ \E p \in {<<>>, TxtPath}, o \in Overrides, l \in LangArgs :
          args = [txt_file_path |-> p, epub_file_path |-> o.epub_file_path,
                  author |-> o.author, title |-> o.title, id |-> o.id, lang |-> l]
    /\ \E t \in Texts, d \in {"absent", "old"} :
          fs = [txt |-> t, before |-> d, dest |-> d, pkg |-> <<>>]
    /\ pc = "call"
    /\ book_content = <<>>
    /\ epub_file_path = args.epub_file_path
    /\ title = args.title
    /\ lang = args.lang
    /\ regex = ""
    /\ spine_uid = ""
    /\ splits = <<>>
    /\ i = 0
    /\ book = NoBook
    /\ result = "running"
    /\ stdout = <<>>
    /\ calls = NoCalls

---------------------------------------------------------------------------
(* txt_to_epub, step by step.                                              *)

Msg(m, a) == [msg |-> m, arg |-> a]

\* lines 98-99
EarlyReturn ==
    /\ pc = "call"
    /\ NoInputPath(args.txt_file_path)
    /\ pc' = "done"
    /\ result' = "None"
    /\ UNCHANGED <<args, fs, book_content, epub_file_path, title, lang, regex, spine_uid,
                   splits, i, book, stdout, calls>>

\* lines 102-112: the book, the text, the default path and title
ReadFile ==
    /\ pc = "call"
    /\ ~NoInputPath(args.txt_file_path)
    /\ book' = NewBook
    /\ book_content' = fs.txt
    /\ calls' = [calls EXCEPT !.read = @ + 1]
    /\ epub_file_path' = IF epub_file_path = <<>>
                         THEN SplitextRoot(args.txt_file_path) \o EpubExt
                         ELSE epub_file_path
    /\ title' = IF title = <<>> THEN SplitextRoot(Basename(args.txt_file_path)) ELSE title
    /\ pc' = "resolve"
    /\ UNCHANGED <<args, fs, lang, regex, spine_uid, splits, i, result, stdout>>

\* line 105: open or read raises
ReadFails ==
    /\ pc = "call"
    /\ ~NoInputPath(args.txt_file_path)
    /\ book' = NewBook
    /\ calls' = [calls EXCEPT !.read = @ + 1]
    /\ pc' = "done"
    /\ result' = "raised"
    /\ UNCHANGED <<args, fs, book_content, epub_file_path, title, lang, regex, spine_uid,
                   splits, i, stdout>>

\* line 113: a language was given
LangGiven ==
    /\ pc = "resolve"
    /\ lang # ""
    /\ pc' = "metadata"
    /\ UNCHANGED <<args, fs, book_content, epub_file_path, title, lang, regex, spine_uid,
                   splits, i, book, result, stdout, calls>>

\* lines 113-115: detect returns a tag
DetectReturns ==
    /\ pc = "resolve"
    /\ lang = ""
    /\ \E d \in Detected : lang' = d
    /\ calls' = [calls EXCEPT !.detect = @ + 1]
    /\ pc' = "metadata"
    /\ UNCHANGED <<args, fs, book_content, epub_file_path, title, regex, spine_uid,
                   splits, i, book, result, stdout>>

\* lines 113-118: detect raises
DetectRaises ==
    /\ pc = "resolve"
    /\ lang = ""
    /\ lang' = FallbackLang
    /\ stdout' = Append(stdout, Msg("Error in language detection", FallbackLang))
    /\ calls' = [calls EXCEPT !.detect = @ + 1, !.detect_raised = @ + 1]
    /\ pc' = "metadata"
    /\ UNCHANGED <<args, fs, book_content, epub_file_path, title, regex, spine_uid,
                   splits, i, book, result>>

\* lines 121-128
SetMetadata ==
    /\ pc = "metadata"
    /\ book' = [book EXCEPT !.title = title,
                            !.language = lang,
                            !.identifier = IF args.id # "" THEN args.id ELSE @,
                            !.authors = IF args.author # "" THEN Append(@, args.author) ELSE @]
    /\ pc' = "language"
    /\ UNCHANGED <<args, fs, book_content, epub_file_path, title, lang, regex, spine_uid,
                   splits, i, result, stdout, calls>>

\* lines 131-138
SelectLanguage ==
    /\ pc = "language"
    /\ LanguageSettings(lang).supported
    /\ regex' = LanguageSettings(lang).regex
    /\ spine_uid' = LanguageSettings(lang).spine_uid
    /\ pc' = "split"
    /\ UNCHANGED <<args, fs, book_content, epub_file_path, title, lang,
                   splits, i, book, result, stdout, calls>>

\* lines 139-141
Unsupported ==
    /\ pc = "language"
    /\ ~LanguageSettings(lang).supported
    /\ stdout' = Append(stdout, Msg("Language not supported", lang))
    /\ pc' = "done"
    /\ result' = "None"
    /\ UNCHANGED <<args, fs, book_content, epub_file_path, title, lang, regex, spine_uid,
                   splits, i, book, calls>>

\* lines 144-145, and the loop variable's first value
Split ==
    /\ pc = "split"
    /\ splits' = ReSplit(regex, book_content)
    /\ calls' = [calls EXCEPT !.split = @ + 1]
    /\ book' = [book EXCEPT !.spine = <<SpineUid(spine_uid)>>]
    /\ i' = RangeStart
    /\ pc' = "loop"
    /\ UNCHANGED <<args, fs, book_content, epub_file_path, title, lang, regex, spine_uid,
                   result, stdout>>

\* lines 148-155: one iteration.  Python's splits[i] is splits[i + 1] here.
AddChapter ==
    /\ pc = "loop"
    /\ InRange(i, splits)
    /\ LET chapter_title == splits[i + 1]
           chapter == EpubHtml(chapter_title, FileName(i), lang, Content(splits[i + 2]))
       IN  book' = [book EXCEPT !.items = Append(@, chapter),
                                !.toc = Append(@, Link(LinkHref(i), chapter_title, LinkUid(i))),
                                !.spine = Append(@, SpineItem(chapter))]
    /\ i' = i + RangeStep
    /\ UNCHANGED <<args, fs, pc, book_content, epub_file_path, title, lang, regex, spine_uid,
                   splits, result, stdout, calls>>

\* the end of the loop and lines 158-159
AddNavigation ==
    /\ pc = "loop"
    /\ ~InRange(i, splits)
    /\ book' = [book EXCEPT !.items = @ \o NavigationItems(spine_uid)]
    /\ pc' = "write"
    /\ UNCHANGED <<args, fs, book_content, epub_file_path, title, lang, regex, spine_uid,
                   splits, i, result, stdout, calls>>

\* lines 162-163: the package is written
WriteEpub ==
    /\ pc = "write"
    /\ fs' = [fs EXCEPT !.dest = "epub", !.pkg = <<book>>]
    /\ calls' = [calls EXCEPT !.write = @ + 1]
    /\ stdout' = Append(stdout, Msg("Save .epub file to", "epub_file_path"))
    /\ pc' = "done"
    /\ result' = "None"
    /\ UNCHANGED <<args, book_content, epub_file_path, title, lang, regex, spine_uid,
                   splits, i, book>>

\* how a failed write_epub ends: ebooklib either lets the error out or
\* swallows it, and then line 163 prints as after a success
WriteFailure(propagates) ==
    /\ calls' = [calls EXCEPT !.write = @ + 1]
    /\ pc' = "done"
    /\ IF propagates
       THEN result' = "raised" /\ UNCHANGED stdout
       ELSE result' = "None" /\ stdout' = Append(stdout, Msg("Save .epub file to", "epub_file_path"))
    /\ UNCHANGED <<args, book_content, epub_file_path, title, lang, regex, spine_uid,
                   splits, i, book>>

\* line 162: the destination cannot be created (no parent directory, no
\* permission): nothing is written
WriteFailsAtOpen ==
    /\ pc = "write"
    /\ \E propagates \in BOOLEAN : WriteFailure(propagates)
    /\ UNCHANGED fs

\* line 162: the destination was opened for writing, which truncates it, and
\* the write fails partway (disk full): txt_to_epub has no cleanup
WriteFailsPartway ==
    /\ pc = "write"
    /\ \E propagates \in BOOLEAN : WriteFailure(propagates)
    /\ fs' = [fs EXCEPT !.dest = "partial"]

Next ==
    \/ EarlyReturn
    \/ ReadFile
    \/ ReadFails
    \/ LangGiven
    \/ DetectReturns
    \/ DetectRaises
    \/ SetMetadata
    \/ SelectLanguage
    \/ Unsupported
    \/ Split
    \/ AddChapter
    \/ AddNavigation
    \/ WriteEpub
    \/ WriteFailsAtOpen
    \/ WriteFailsPartway

Spec == Init /\ [][Next]_vars

---------------------------------------------------------------------------
(* What the claims speak of.                                               *)

RECURSIVE Concat(_)
Concat(s) == IF s = <<>> THEN <<>> ELSE s[1] \o Concat(Tail(s))

\* the pieces s[k], s[k+1], ... lie in t from position p on in this order and
\* reach its end, with nothing between them but a run of whitespace before a
\* piece (none before the first piece)
RECURSIVE Fits(_, _, _, _)
Fits(s, k, t, p) ==
    IF k > Len(s) THEN p = Len(t) + 1
    ELSE \E g \in 0..(IF k = 1 THEN 0 ELSE Len(t) + 1 - p) :
            /\ \A j \in p..(p + g - 1) : t[j] \in {" ", NL, "\t"}
            /\ p + g + Len(s[k]) <= Len(t) + 1
            /\ Slice(t, p + g, p + g + Len(s[k])) = s[k]
            /\ Fits(s, k + 1, t, p + g + Len(s[k]))

SplitDone == calls.split = 1

\* the chapters of the split: splits is preamble, heading 1, body 1, ...
NumChapters == (Len(splits) - 1) \div 2

Heading(k) == splits[2 * k]

Body(k) == splits[2 * k + 1]

HtmlItems(b) == SelectSeq(b.items, LAMBDA x : x.kind = "EpubHtml")

StartsWith(s, tok) == Len(s) >= Len(tok) /\ SubSeq(s, 1, Len(tok)) = tok

ChapterToken == <<"C", "h", "a", "p", "t", "e", "r">>

\* C1 (as claimed): preamble + heading 1 + body 1 + ... + heading n + body n is
\* the original text, character for character.
C1_LosslessSplit == SplitDone => Concat(splits) = book_content

\* C1 (amended): the pieces of the split are the original text in order, with
\* only runs of whitespace dropped, each directly before a heading or directly
\* after a heading's line; a text without a boundary is its own preamble.
C1_OnlyWhitespaceDropped ==
    SplitDone =>
        /\ Len(splits) % 2 = 1
        /\ Fits(splits, 1, book_content, 1)
        /\ (Len(splits) = 1 => splits = <<book_content>>)

C1_Witness ==
    /\ SplitDone
    /\ book_content = TwoChapters
    /\ regex = "en"
    /\ NumChapters = 2
    /\ Concat(splits) # book_content

\* C2: under 'en' every chapter heading is a line that begins with the token
\* "Chapter"; a line that only begins with one of its letters makes no chapter.
C2_OnlyChapterLines ==
    (SplitDone /\ regex = "en") =>
        \A k \in 1..NumChapters : StartsWith(Heading(k), ChapterToken)

\* the run reached the language check with a language outside the supported set
\* and ended there (a new book's language is 'en', so book.language = lang tells
\* that line 122 has run)
UnsupportedDone ==
    /\ pc = "done"
    /\ book # NoBook
    /\ book.language = lang
    /\ lang \notin {"en", "zh-cn"}

NothingPackaged ==
    /\ calls.split = 0
    /\ splits = <<>>
    /\ book.items = <<>> /\ book.toc = <<>> /\ book.spine = <<>>
    /\ calls.write = 0
    /\ fs.dest = fs.before /\ fs.pkg = <<>>

\* C3 (as claimed): an unsupported language ends the call in an error outcome
\* that the caller can tell from a success and from the no-op, both of which
\* return None; nothing is segmented, packaged or written.
C3_ExplicitError == UnsupportedDone => (result # "None" /\ NothingPackaged)

\* C3 (amended): an unsupported language makes txt_to_epub print 'Language
\* "<lang>" not supported' and return None as after a success; nothing is
\* segmented, no chapter, navigation entry or spine is built and nothing is
\* written; and no split or write ever happens under an unsupported language.
C3_SilentReturn ==
    /\ UnsupportedDone =>
          /\ result = "None"
          /\ stdout # <<>>
          /\ stdout[Len(stdout)] = Msg("Language not supported", lang)
          /\ NothingPackaged
    /\ (calls.split > 0 \/ calls.write > 0) => lang \in {"en", "zh-cn"}

C3_Witness == UnsupportedDone /\ lang = "fr" /\ args.lang = "" /\ fs.txt = TwoChapters

\* C4: the k-th chapter carries the index k: its resource name is chap_k.xhtml
\* and its navigation uid chapk.
C4_ConsecutiveIndices ==
    SplitDone =>
        \A k \in 1..Len(book.toc) :
            /\ HtmlItems(book)[k].file_name = "chap_" \o ToString(k) \o ".xhtml"
            /\ book.toc[k].uid = "chap" \o ToString(k)

\* C5: in every state the destination holds what it held before the call or the
\* complete package: a failed write leaves no partial file and changes no file
\* that was there.
C5_DestinationIntact == fs.dest = fs.before \/ (fs.dest = "epub" /\ fs.pkg = <<book>>)

\* no position of the text starts a match of the chosen pattern
NoBoundary == \A p \in 1..Len(book_content) : MatchAt(regex, book_content, p) = NoMatch

\* C6: a text without a boundary gives no chapter, whatever the preamble: the
\* loop runs zero times, the book holds the metadata, the NCX and the nav and a
\* spine of the navigation label alone, write_epub is called once with that book,
\* and nothing before the write fails.
C6_EmptyBook ==
    (SplitDone /\ NoBoundary) =>
        /\ splits = <<book_content>>
        /\ NumChapters = 0
        /\ i = 1
        /\ HtmlItems(book) = <<>>
        /\ book.toc = <<>>
        /\ book.spine = <<SpineUid(spine_uid)>>
        /\ book.title = title /\ book.language = lang
        /\ pc \in {"loop", "write", "done"}
        /\ pc = "loop" => result = "running"
        /\ pc = "write" => (result = "running" /\ book.items = <<EpubNcx, EpubNav(spine_uid)>>)
        /\ pc = "done" => (calls.write = 1 /\ book.items = <<EpubNcx, EpubNav(spine_uid)>>)
        /\ fs.dest = "epub" => (fs.pkg = <<book>> /\ result = "None")

C6_Witness ==
    /\ SplitDone /\ NoBoundary
    /\ Len(book_content) = MaxLen
    /\ pc = "done" /\ fs.dest = "epub"
    /\ fs.pkg[1].spine = <<SpineUid("Table of Content")>>
    /\ fs.pkg[1].title = <<"b">>

NavLabel(l) == IF l = "en" THEN "Table of Content" ELSE "mulu"

\* C7: after every iteration and at write time the spine is the navigation label
\* of the language and then the chapters so far in source order, the table of
\* contents has one entry per chapter in the same order, entry k pointing at
\* chapter k's resource name and labelled with its heading; n chapters give n
\* content units and n entries, two for "Chapter 1\nHello\nChapter 2\nWorld".
C7_PackageStructure ==
    SplitDone =>
        LET n == Len(book.toc)
            units == HtmlItems(book)
        IN  /\ n = (i - 1) \div 2
            /\ pc \in {"write", "done"} => n = NumChapters
            /\ Len(units) = n
            /\ Len(book.spine) = n + 1
            /\ book.spine[1] = SpineUid(NavLabel(lang))
            /\ \A k \in 1..n :
                  /\ book.spine[k + 1] = SpineItem(units[k])
                  /\ book.toc[k].href = units[k].file_name
                  /\ book.toc[k].title = Heading(k)
                  /\ units[k].title = Heading(k)
                  /\ units[k].content = Content(Body(k))
            /\ \A k, m \in 1..n : units[k].file_name = units[m].file_name => k = m
            /\ fs.dest = "epub" => fs.pkg = <<book>>
            /\ (book_content = TwoChapters /\ regex = "en" /\ pc \in {"write", "done"}) =>
                  /\ n = 2
                  /\ Body(1) = <<"H", "e", "l", "l", "o", NL>>
                  /\ Body(2) = <<"W", "o", "r", "l", "d">>

C7_Witness ==
    /\ book_content = TwoChapters /\ regex = "en"
    /\ pc = "done" /\ fs.dest = "epub"
    /\ Len(fs.pkg[1].toc) = 2
    /\ Len(fs.pkg[1].spine) = 3

\* C8: with no input path the call returns at once and silently: no file is
\* read, no language detected, nothing split, packaged, printed or written.
C8_AbsentPathNoOp ==
    args.txt_file_path = <<>> =>
        /\ pc \in {"call", "done"}
        /\ calls = NoCalls
        /\ book = NoBook /\ book_content = <<>> /\ splits = <<>>
        /\ stdout = <<>>
        /\ fs.dest = fs.before /\ fs.pkg = <<>>
        /\ result = (IF pc = "done" THEN "None" ELSE "running")

C8_Witness == args.txt_file_path = <<>> /\ pc = "done" /\ fs.txt = TwoChapters /\ args.lang = "en"

\* C9: a given language is used unchanged and the detector is never called;
\* when none is given and the detector raises, the language is 'zh-cn', the
\* error is printed, the call goes on and the text is split by the zh-cn pattern.
C9_ResolverNeverAborts ==
    /\ args.lang # "" => (calls.detect = 0 /\ lang = args.lang)
    /\ calls.detect_raised = 1 =>
          /\ args.lang = ""
          /\ lang = "zh-cn"
          /\ stdout # <<>> /\ stdout[1] = Msg("Error in language detection", "zh-cn")
          /\ pc # "resolve"
          /\ pc = "metadata" => result = "running"
          /\ result = "raised" => calls.write = 1
          /\ SplitDone => (regex = "zh-cn" /\ splits = ReSplit("zh-cn", book_content))
          /\ pc = "done" => SplitDone

C9_Witness ==
    /\ calls.detect_raised = 1
    /\ book_content = TwoChapters
    /\ SplitDone
    /\ pc = "done" /\ fs.dest = "epub"

\* C10: under 'zh-cn' every chapter heading is a marker, then at least one
\* numeral, then a unit.
C10_NumeralRequired ==
    (SplitDone /\ regex = "zh-cn") =>
        \A k \in 1..NumChapters :
            LET h == Heading(k)
            IN  /\ Len(h) >= 3
                /\ h[1] \in {"di", "juan"}
                /\ h[2] \in Numerals

====
